---------------------------- MODULE Spec2Model ----------------------------
(***************************************************************************)
(* Model of the MCP agent of this repository.                              *)
(*                                                                         *)
(*   src/mcp_client.py  mcp_server_context: the session lifecycle (start   *)
(*                      the server subprocess, initialize, discover the    *)
(*                      tools, wrap each tool, build the agent/tools graph *)
(*                      and yield it), jsonschema_to_pydantic, the wrapper *)
(*                      that makes the round trip of one invocation.       *)
(*   src/evaluate_mcp.py  run_evaluation: the caller, one conversation per *)
(*                      test case, final answer = content of last message. *)
(*   src/mcp_server.py  execute_python_code: the script executor.          *)
(*                                                                         *)
(* The graph is the one mcp_server_context wires: START -> agent,          *)
(* agent -> tools_condition -> tools | END, tools -> agent.  The nodes are *)
(* library objects used with their defaults: ToolNode(langchain_tools)     *)
(* runs the tool calls of the last AI message as concurrent tasks          *)
(* (asyncio.gather) and returns their ToolMessages in request order; with  *)
(* its default error handling an exception raised by a tool becomes a      *)
(* ToolMessage of status "error".  session.call_tool returns a result      *)
(* object, also when the server flags it isError; it raises only on a      *)
(* protocol or transport error.                                            *)
(*                                                                         *)
(* The graph is compiled and invoked without a recursion_limit, so a run   *)
(* is ended by GraphRecursionError after LangGraph's default of 25         *)
(* supersteps.                                                             *)
(*                                                                         *)
(* Specifications:  Spec (session lifecycle and control loop), SpecLong    *)
(* (the same with conversations as long as the recursion limit allows,     *)
(* started by run_evaluation or by run_interactive), SpecArgs (the same    *)
(* with requests that give any arguments), SpecExec (the script executor   *)
(* on the server side), SpecSandbox (the namespaces of successive          *)
(* scripts), SpecTranslate (jsonschema_to_pydantic on any descriptor       *)
(* schema) and SpecHarness (the resumable harness of src/evaluate_code.py  *)
(* and its answers file).                                                  *)
(***************************************************************************)
EXTENDS Naturals, Sequences, FiniteSets

\* ------------------------------------------------------------------ bounds

\* Invocation requests (call identifiers) in one conversation.
MaxCalls == 3

\* Queries the caller runs in one session.
MaxQueries == 2

\* Statements in a script handed to execute_python_code.
MaxScriptLen == 3

\* Parameters declared in one tool descriptor.
MaxFields == 2

\* Calls of execute_python_code one server process answers.
MaxRuns == 2

\* Test cases in the test set.
MaxCases == 2

\* Entries in the answers file left by an earlier run.
MaxLogged == 2

\* The supersteps one ainvoke may take: workflow.compile() and
\* agent.ainvoke(...) pass no recursion_limit, so the graph runs under
\* LangGraph's default of 25.
RecursionLimit == 25

\* Call identifiers a conversation can use up before that limit ends it.
IdSpace == MaxCalls + RecursionLimit

VARIABLES
    \* --- session lifecycle (mcp_server_context)
    pc,              \* position in mcp_server_context
    mode,            \* "standard" | "code"
    procRunning,     \* the server subprocess is alive
    channelOpen,     \* the ClientSession over the subprocess's stdio is open
    discovered,      \* mcp_tools.tools: the tool names list_tools returned
    nextTool,        \* index of the for loop over mcp_tools.tools
    langchain_tools, \* the tools wrapped so far
    setupError,      \* which setup step raised, "none" if none
    agentYielded,    \* the agent was yielded to the caller
    exitPath,        \* how the context was left
    \* --- control loop (the compiled graph) and its caller
    node,            \* "idle" | "agent" | "tools" | "end" | "crashed"
    messages,        \* AgentState.messages
    calls,           \* the tool calls of the latest turn and how far each got
    overtaken,       \* a task of the latest turn finished before an earlier one
    sent,            \* call id -> requests sent over the channel for it
    nextId,          \* next fresh call identifier
    nModel,          \* model responses in this conversation
    queries,         \* queries started in this session
    final_out,       \* the caller's final answer
    \* --- script executor (mcp_server.py)
    code,            \* the script of the last execute_python_code call
    outcome,         \* what that call returned or raised
    hostStdout,      \* what reached the server's real standard output
    \* --- schema translation (jsonschema_to_pydantic)
    schema,          \* the inputSchema of a tool descriptor
    args_schema,     \* what jsonschema_to_pydantic made of it
    \* --- namespaces of the scripts (mcp_server.py)
    sandbox,         \* the namespaces of the calls of execute_python_code
    \* --- resumable harness (src/evaluate_code.py)
    harness          \* run_evaluation with a start id: its files and locals

sessionVars == <<pc, mode, procRunning, channelOpen, discovered, nextTool,
                 langchain_tools, setupError, agentYielded, exitPath>>
loopVars == <<node, messages, calls, overtaken, sent, nextId, nModel, queries,
              final_out>>
execVars == <<code, outcome, hostStdout>>
schemaVars == <<schema, args_schema>>
funcVars == <<execVars, schemaVars, sandbox, harness>>
vars == <<sessionVars, loopVars, funcVars>>

\* ------------------------------------------------------------- vocabulary

\* Names the server can advertise (mcp_server.py registers five tools; one
\* ordinary tool and the script tool are enough to tell the two kinds apart).
ToolNames == {"check_stock", "execute_python_code"}

Modes == {"standard", "code"}

RECURSIVE SeqsUpTo(_, _)
SeqsUpTo(S, n) ==
    IF n = 0 THEN {<<>>}
    ELSE LET shorter == SeqsUpTo(S, n - 1)
         IN  shorter \cup {Append(s, x) : s \in shorter, x \in S}

Range(s) == {s[i] : i \in 1..Len(s)}

\* Responses of the discovery round trip: descriptors with unique names.
DiscoveryResponses ==
    {s \in SeqsUpTo(ToolNames, Cardinality(ToolNames)) :
        Cardinality(Range(s)) = Len(s)}

NoContent == <<"none", 0>>


\* ------------------------------------------------- session lifecycle

\* Variant: cleanup written in the except clause only, so that a cancellation
\* or a normal end leaves the subprocess and the channel as they are.
TeardownTerminatesOnlyOnError(path) ==
    /\ procRunning' = IF path = "error" THEN FALSE ELSE procRunning
    /\ channelOpen' = IF path = "error" THEN FALSE ELSE channelOpen
    /\ pc' = "exited"
    /\ exitPath' = path

\* Control leaves the body of async with stdio_client (line 66), by whatever
\* path: an error, a cancellation (CancelledError thrown in at an await or
\* at the yield) or the normal end of the caller's block.  The inner block,
\* async with ClientSession (line 67), closes the session if it was entered;
\* the outer one terminates the subprocess.  The except clause only prints
\* and re-raises.
Teardown(path) ==
    /\ procRunning' = FALSE
    /\ channelOpen' = FALSE
    /\ pc' = "exited"
    /\ exitPath' = path

\* Variant: the failing step is logged and skipped, and setup goes on.
SetupSwallowsError(step) ==
    /\ setupError' = step
    /\ pc' = "build"
    /\ nextTool' = nextTool + 1
    /\ UNCHANGED <<procRunning, channelOpen, exitPath>>

\* A setup step raised: the error propagates out of mcp_server_context before
\* the yield is reached.
SetupFails(step) ==
    /\ setupError' = step
    /\ Teardown("error")
    /\ UNCHANGED nextTool

\* if not os.path.exists(SERVER_SCRIPT): raise FileNotFoundError
CheckServerScript ==
    /\ pc = "start"
    /\ \/ /\ pc' = "connect"
          /\ UNCHANGED <<setupError, exitPath>>
       \/ /\ setupError' = "script"
          /\ pc' = "exited"
          /\ exitPath' = "error"
    /\ UNCHANGED <<mode, procRunning, channelOpen, discovered, nextTool,
                   langchain_tools, agentYielded>>
    /\ UNCHANGED <<loopVars, funcVars>>

\* Entering stdio_client is given up after the subprocess was created and
\* before the body of the block is reached, so that the exit of the block
\* never runs: the await of the process creation closes the transport of
\* the subprocess it created, which kills it, and re-raises.
AbandonSpawn(path) ==
    /\ procRunning' = FALSE
    /\ pc' = "exited"
    /\ exitPath' = path
    /\ UNCHANGED channelOpen

\* async with stdio_client(server_params), first half of entering: the
\* subprocess is created and the task awaits, or creating it raises (no
\* subprocess exists then and the error goes to the except clause).
SpawnServer ==
    /\ pc = "connect"
    /\ \/ /\ procRunning' = TRUE
          /\ pc' = "spawned"
          /\ UNCHANGED <<setupError, exitPath, channelOpen>>
       \/ /\ setupError' = "spawn"
          /\ pc' = "exited"
          /\ exitPath' = "error"
          /\ UNCHANGED <<procRunning, channelOpen>>
    /\ UNCHANGED <<mode, discovered, nextTool, langchain_tools, agentYielded>>
    /\ UNCHANGED <<loopVars, funcVars>>

\* async with stdio_client(server_params) as (read, write): entering ends
\* and hands over the two streams of the running subprocess.
StdioClientEnter ==
    /\ pc = "spawned"
    /\ pc' = "session"
    /\ UNCHANGED <<mode, procRunning, channelOpen, discovered, nextTool,
                   langchain_tools, setupError, agentYielded, exitPath>>
    /\ UNCHANGED <<loopVars, funcVars>>

\* async with ClientSession(read, write) as session: await session.initialize()
SessionInitialize ==
    /\ pc = "session"
    /\ \/ /\ channelOpen' = TRUE
          /\ pc' = "list"
          /\ UNCHANGED <<setupError, exitPath, procRunning, nextTool>>
       \/ SetupFails("initialize")
    /\ UNCHANGED <<mode, discovered, langchain_tools, agentYielded>>
    /\ UNCHANGED <<loopVars, funcVars>>

\* mcp_tools = await session.list_tools(); langchain_tools = []
ListTools ==
    /\ pc = "list"
    /\ \/ /\ \E resp \in DiscoveryResponses : discovered' = resp
          /\ nextTool' = 1
          /\ langchain_tools' = <<>>
          /\ pc' = "build"
          /\ UNCHANGED <<setupError, exitPath, procRunning, channelOpen>>
       \/ /\ SetupFails("list_tools")
          /\ UNCHANGED <<discovered, langchain_tools>>
    /\ UNCHANGED <<mode, agentYielded>>
    /\ UNCHANGED <<loopVars, funcVars>>

\* Variant: the script tool is left out in both modes.
SkippedInEveryMode(m, name) == name = "execute_python_code"

\* if mode == "standard" and tool.name == "execute_python_code": continue
Skipped(m, name) == m = "standard" /\ name = "execute_python_code"

\* One iteration of `for tool in mcp_tools.tools`: skip, or translate the
\* input schema (which may raise) and append the wrapped tool.
BuildTool ==
    /\ pc = "build"
    /\ nextTool <= Len(discovered)
    /\ LET name == discovered[nextTool] IN
       \/ /\ Skipped(mode, name)
          /\ nextTool' = nextTool + 1
          /\ UNCHANGED <<langchain_tools, setupError, pc, exitPath,
                         procRunning, channelOpen>>
       \/ /\ ~Skipped(mode, name)
          /\ langchain_tools' = Append(langchain_tools, name)
          /\ nextTool' = nextTool + 1
          /\ UNCHANGED <<setupError, pc, exitPath, procRunning, channelOpen>>
       \/ /\ ~Skipped(mode, name)
          /\ SetupFails("translate")
          /\ UNCHANGED langchain_tools
    /\ UNCHANGED <<mode, discovered, agentYielded>>
    /\ UNCHANGED <<loopVars, funcVars>>

\* After the for loop: bind the tools, build and compile the graph (lines
\* 94-108, any of which may raise), yield agent.
YieldAgent ==
    /\ pc = "build"
    /\ nextTool > Len(discovered)
    /\ \/ /\ pc' = "yielded"
          /\ agentYielded' = TRUE
          /\ UNCHANGED <<procRunning, channelOpen, nextTool, setupError,
                         exitPath>>
       \/ /\ SetupFails("graph")
          /\ UNCHANGED agentYielded
    /\ UNCHANGED <<mode, discovered, langchain_tools>>
    /\ UNCHANGED <<loopVars, funcVars>>

\* The task running the context is cancelled from outside (KeyboardInterrupt
\* under asyncio.run, a timeout of the caller) at one of its awaits: while
\* stdio_client is being entered (line 66), before the subprocess exists or
\* after it was created; during setup; or at the yield with the caller's
\* block running, where requests in flight are abandoned.
Cancel ==
    /\ \/ /\ pc = "connect"
          /\ pc' = "exited"
          /\ exitPath' = "cancel"
          /\ UNCHANGED <<procRunning, channelOpen>>
       \/ /\ pc = "spawned"
          /\ AbandonSpawn("cancel")
       \/ /\ pc \in {"session", "list", "build", "yielded"}
          /\ Teardown("cancel")
    /\ UNCHANGED <<mode, discovered, nextTool, langchain_tools, setupError,
                   agentYielded>>
    /\ UNCHANGED <<loopVars, funcVars>>

\* The caller's `async with` block ends normally (all cases run, or "quit").
LeaveContext ==
    /\ pc = "yielded"
    /\ node \in {"idle", "end", "crashed"}
    /\ Teardown("normal")
    /\ UNCHANGED <<mode, discovered, nextTool, langchain_tools, setupError,
                   agentYielded>>
    /\ UNCHANGED <<loopVars, funcVars>>

\* ------------------------------------------------- schema translation

\* Parameter names of the tool descriptors.
FieldNames == {"part_id", "city", "code"}

\* The JSON types the translation knows.
KnownTypes == {"string", "integer", "number", "boolean", "array", "object"}

\* What a parameter spec can give as its "type": a known type, another
\* string ("null"), no "type" key at all ("<absent>"), or a value that is not
\* a string: JSON Schema allows a list of types such as ["string", "null"]
\* ("<list>").
TypeValues == KnownTypes \cup {"null", "<absent>", "<list>"}

\* schema["properties"]: parameter specs under distinct names, in the order
\* of the dict.
PropertyLists ==
    {ps \in SeqsUpTo([name : FieldNames, type : TypeValues], MaxFields) :
        \A i, j \in 1..Len(ps) : ps[i].name = ps[j].name => i = j}

\* The inputSchema of a descriptor: an absent "properties" or "required" key
\* reads as the empty one (schema.get(key, default)).
Schemas == [properties : PropertyLists, required : SUBSET FieldNames]

type_map ==
    [t \in KnownTypes |->
        CASE t = "string" -> "str"
          [] t = "integer" -> "int"
          [] t = "number" -> "float"
          [] t = "boolean" -> "bool"
          [] t = "array" -> "list"
          [] t = "object" -> "dict"]

\* detail.get("type", "string")
JsonType(detail) == IF detail.type = "<absent>" THEN "string" ELSE detail.type

\* A value that cannot be a dict key: a lookup with it raises TypeError.
Unhashable(json_type) == json_type = "<list>"

\* type_map.get(json_type, str), for a hashable json_type.
PyType(json_type) ==
    IF json_type \in DOMAIN type_map THEN type_map[json_type] ELSE "str"

\* Variant: every parameter is optional.
DefaultAlwaysNone(field_name, required) == "None"

\* default = ... if is_required else None, with is_required = field_name in
\* required; "..." (Ellipsis) is pydantic's mark of a required field.
Default(field_name, required) ==
    IF field_name \in required THEN "..." ELSE "None"

\* The loop over properties.items() from the i-th item on, with the fields
\* made so far.  The translation ends with the model create_model builds from
\* the fields, or with the exception of the first lookup that raises.
RECURSIVE TranslateFrom(_, _, _, _)
TranslateFrom(properties, required, i, fields) ==
    IF i > Len(properties)
    THEN [kind |-> "model", fields |-> fields]
    ELSE LET field_name == properties[i].name
             json_type == JsonType(properties[i])
         IN  IF Unhashable(json_type)
             THEN [kind |-> "raised", fields |-> <<"TypeError">>]
             ELSE TranslateFrom(properties, required, i + 1,
                      Append(fields, [name |-> field_name,
                                      py_type |-> PyType(json_type),
                                      default |-> Default(field_name, required)]))

jsonschema_to_pydantic(s) == TranslateFrom(s.properties, s.required, 1, <<>>)

\* The inputSchema the server declares for a tool: FastMCP derives it from
\* the signature of the function, one required string parameter each.
inputSchema(name) ==
    IF name = "execute_python_code"
    THEN [properties |-> <<[name |-> "code", type |-> "string"]>>,
          required |-> {"code"}]
    ELSE [properties |-> <<[name |-> "part_id", type |-> "string"]>>,
          required |-> {"part_id"}]

\* Variant: the contract is not checked when the tool is called.
ValidatesAnything(contract, kwargs) == TRUE

\* The arguments of a call are validated against the args_schema of the
\* tool before its coroutine is called: every required field must be given.
Validates(contract, kwargs) ==
    \A k \in 1..Len(contract.fields) :
        contract.fields[k].default = "..." => contract.fields[k].name \in kwargs

\* The arguments the coroutine is called with: those given that the contract
\* declares.
ParseInput(contract, kwargs) ==
    {contract.fields[k].name : k \in 1..Len(contract.fields)} \cap kwargs

\* ------------------------------------------------------- conversation

SystemMessage == [type |-> "system", content |-> <<"SYSTEM_PROMPT", 0>>,
                  tool_calls |-> <<>>, tool_call_id |-> 0, status |-> "none"]

HumanMessage(q) == [type |-> "human", content |-> <<"q", q>>,
                    tool_calls |-> <<>>, tool_call_id |-> 0, status |-> "none"]

\* The k-th response of the model in a conversation; its text is its own.
AIMessage(k, tcs) == [type |-> "ai", content |-> <<"answer", k>>,
                      tool_calls |-> tcs, tool_call_id |-> 0, status |-> "none"]

\* Variant: every result carries the identifier of the last call of the turn
\* (a closure over the loop variable).
ToolMessageUsesLastId(cs, i) ==
    [type |-> "tool", content |-> <<cs[i].out, cs[i].id>>, tool_calls |-> <<>>,
     tool_call_id |-> cs[Len(cs)].id,
     status |-> IF cs[i].out \in {"raised", "invalid"} THEN "error" ELSE "success"]

\* What the tools node makes of a finished call.  ok and isError are both a
\* value returned by session.call_tool (the wrapper returns it as it is), so
\* the message is a normal one; "raised" is an exception out of the wrapper
\* and "invalid" a request for a name that is not among the wrapped tools:
\* both are answered with an error message.
ToolMessage(cs, i) ==
    [type |-> "tool", content |-> <<cs[i].out, cs[i].id>>, tool_calls |-> <<>>,
     tool_call_id |-> cs[i].id,
     status |-> IF cs[i].out \in {"raised", "invalid"} THEN "error" ELSE "success"]

Last(s) == s[Len(s)]

\* Tool calls a model response can carry: n requests with fresh identifiers
\* first, first+1, ..., each for a name and with arguments (the names of the
\* parameters it gives) of the model's choosing among requests.
ToolCallLists(first, n, requests) ==
    {[i \in 1..n |-> [id |-> first + i - 1, name |-> c[i].name,
                      args |-> c[i].args]] :
        c \in [1..n -> requests]}

\* A request for a tool with the parameters its schema requires.
CompleteRequests ==
    {[name |-> t, args |-> inputSchema(t).required] : t \in ToolNames}

\* Nothing was sent for a call.
NoRequest == [name |-> "none", args |-> {}]

\* Variant: the edge agent -> tools is unconditional.
ToolsConditionAlwaysTools(msg) == "tools"

\* tools_condition: "tools" if the last message carries tool calls, else END.
ToolsCondition(msg) == IF Len(msg.tool_calls) > 0 THEN "tools" ELSE "end"

AllDone(cs) == \A i \in 1..Len(cs) : cs[i].st = "done"

InFlight(cs) == {i \in 1..Len(cs) : cs[i].st = "inflight"}

\* Variant: the messages channel has no reducer, an update overwrites it.
add_messages_overwrites(left, right) == right

\* Variant: the update is put in front of the conversation.
add_messages_prepends(left, right) == right \o left

\* The reducer of AgentState.messages: the update of a node is appended to
\* the conversation.  (add_messages replaces a message only when the update
\* carries the id of one already there; every message here is new.)
add_messages(left, right) == left \o right

\* The superstep a node runs in: START -> agent is superstep 1, and agent
\* and tools alternate, so the k-th model response is produced in superstep
\* 2k - 1 and its tool calls execute in superstep 2k.
Superstep(k, n) == IF n = "tools" THEN 2 * k ELSE 2 * k - 1

\* Variant: the graph runs without a recursion limit.
OutOfStepsNever(step) == FALSE

\* Variant: the limit is taken a turn (two supersteps) early.
OutOfStepsEarly(step) == step + 2 > RecursionLimit

\* The graph still has a node to run but the superstep it would run in is
\* beyond the recursion limit: ainvoke raises GraphRecursionError.
OutOfSteps(step) == step > RecursionLimit

\* ------------------------------------------------------- control loop

\* Variant: the caller keeps one list of messages for the whole session.
StartConversationKeepsMessages(first) ==
    /\ pc = "yielded"
    /\ node \in {"idle", "end", "crashed"}
    /\ queries < MaxQueries
    /\ queries' = queries + 1
    /\ messages' = messages \o first
    /\ node' = "agent"
    /\ calls' = <<>>
    /\ overtaken' = FALSE
    /\ sent' = [c \in 1..IdSpace |-> 0]
    /\ nextId' = 1
    /\ nModel' = 0
    /\ final_out' = NoContent
    /\ UNCHANGED <<sessionVars, funcVars>>

\* The caller starts a conversation from the turns in first and runs the
\* graph on it; the graph is compiled without a checkpointer, so it starts
\* from that input alone.
StartConversation(first) ==
    /\ pc = "yielded"
    /\ node \in {"idle", "end", "crashed"}
    /\ queries < MaxQueries
    /\ queries' = queries + 1
    /\ messages' = first
    /\ node' = "agent"
    /\ calls' = <<>>
    /\ overtaken' = FALSE
    /\ sent' = [c \in 1..IdSpace |-> 0]
    /\ nextId' = 1
    /\ nModel' = 0
    /\ final_out' = NoContent
    /\ UNCHANGED <<sessionVars, funcVars>>

\* run_evaluation, for each case: messages = [System, Human];
\* result = await agent.ainvoke({"messages": messages}).
StartQuery == StartConversation(<<SystemMessage, HumanMessage(queries + 1)>>)

\* run_interactive, for each line the user types: messages = [Human];
\* agent.astream({"messages": messages}).
StartInteractiveQuery == StartConversation(<<HumanMessage(queries + 1)>>)

\* agent_node and the conditional edge after it.  The model answers with a
\* final text or with tool calls; the response is appended; tools_condition
\* routes.  At END ainvoke returns and the caller reads
\* result["messages"][-1].content.
\* When the route is "tools" and the superstep of the tools node is beyond
\* the recursion limit, ainvoke raises GraphRecursionError instead and no
\* tool call of that response is executed: run_evaluation catches the error
\* and logs CRASH, run_interactive does not and the context is left with it.
\* The model's choice is drawn from the responses with ns requests, each
\* one of requests.
AgentStep(ns, requests) ==
    /\ pc = "yielded"
    /\ node = "agent"
    /\ \E n \in ns :
       \E tcs \in ToolCallLists(nextId, n, requests) :
          LET msg == AIMessage(nModel + 1, tcs)
              route == ToolsCondition(msg)
              over == route = "tools" /\ OutOfSteps(Superstep(nModel + 1, "tools"))
          IN  /\ messages' = add_messages(messages, <<msg>>)
              /\ nModel' = nModel + 1
              /\ nextId' = nextId + n
              /\ IF over
                 THEN \/ /\ node' = "crashed"
                         /\ final_out' = <<"CRASH", 0>>
                         /\ UNCHANGED sessionVars
                      \/ /\ Teardown("error")
                         /\ UNCHANGED <<node, final_out, mode, discovered,
                                        nextTool, langchain_tools, setupError,
                                        agentYielded>>
                 ELSE /\ node' = route
                      /\ final_out' = IF route = "end" THEN msg.content
                                      ELSE final_out
                      /\ UNCHANGED sessionVars
              /\ calls' = IF route = "tools"
                          THEN [i \in 1..n |-> [id |-> tcs[i].id,
                                                name |-> tcs[i].name,
                                                args |-> tcs[i].args,
                                                st |-> "todo", out |-> "none",
                                                request |-> NoRequest]]
                          ELSE <<>>
              /\ overtaken' = FALSE
    /\ UNCHANGED <<sent, queries>>
    /\ UNCHANGED funcVars

\* The agent node for a model that asks for at most MaxCalls tool calls in
\* one conversation, in turns of any size.
AgentNode == AgentStep(0..(MaxCalls + 1 - nextId), CompleteRequests)

\* llm_with_tools.invoke raises (the model server is unreachable).  The
\* exception leaves ainvoke: run_evaluation catches it and logs CRASH,
\* run_interactive does not and the context is left with the error.
AgentRaises ==
    /\ pc = "yielded"
    /\ node = "agent"
    /\ \/ /\ node' = "crashed"
          /\ final_out' = <<"CRASH", 0>>
          /\ UNCHANGED sessionVars
       \/ /\ Teardown("error")
          /\ UNCHANGED <<node, final_out, mode, discovered, nextTool,
                         langchain_tools, setupError, agentYielded>>
    /\ UNCHANGED <<messages, calls, overtaken, sent, nextId, nModel, queries>>
    /\ UNCHANGED funcVars

\* Variant: the message of a task is appended as soon as the task finishes.
AfterCallAppendsAsFinished(cs) ==
    LET new == {i \in 1..Len(cs) : cs[i].st = "done" /\ calls[i].st # "done"}
    IN  /\ messages' = add_messages(messages,
               SelectSeq([i \in 1..Len(cs) |-> ToolMessage(cs, i)],
                         LAMBDA m : \E i \in new : cs[i].id = m.tool_call_id))
        /\ node' = IF AllDone(cs) THEN "agent" ELSE node
        /\ calls' = cs

\* Variant: the node returns as soon as one task has finished.
AfterCallReturnsOnFirst(cs) ==
    LET done == {i \in 1..Len(cs) : cs[i].st = "done"}
        outs == [i \in 1..Len(cs) |-> ToolMessage(cs, i)]
    IN  IF done # {}
        THEN /\ messages' = add_messages(messages,
                     SelectSeq(outs, LAMBDA m :
                         \E i \in done : cs[i].id = m.tool_call_id))
             /\ node' = "agent"
             /\ calls' = cs
        ELSE /\ calls' = cs
             /\ UNCHANGED <<messages, node>>

\* Variant: an exception of a task is not handled and aborts the run.
AfterCallAbortsOnRaise(cs) ==
    IF \E i \in 1..Len(cs) : cs[i].out = "raised"
    THEN /\ node' = "crashed"
         /\ calls' = cs
         /\ UNCHANGED messages
    ELSE IF AllDone(cs)
    THEN /\ messages' = add_messages(messages,
                            [i \in 1..Len(cs) |-> ToolMessage(cs, i)])
         /\ node' = "agent"
         /\ calls' = cs
    ELSE /\ calls' = cs
         /\ UNCHANGED <<messages, node>>

\* The tools node after one of its tasks finished: when every task has, the
\* node returns the ToolMessages in request order, they are appended to the
\* conversation and the edge tools -> agent is taken.  An
\* exception of a task is handled inside the node (ToolNode's default) and
\* shows as the status of that call's message.
AfterCall(cs) ==
    IF AllDone(cs)
    THEN /\ messages' = add_messages(messages,
                            [i \in 1..Len(cs) |-> ToolMessage(cs, i)])
         /\ node' = "agent"
         /\ calls' = cs
    ELSE /\ calls' = cs
         /\ UNCHANGED <<messages, node>>

\* Variant: the wrapper sends the request again after the first attempt.
WrapperSendsTwice(id) == [sent EXCEPT ![id] = @ + 2]

\* The wrapper of a tool: one session.call_tool, that is one request sent.
Wrapper(id) == [sent EXCEPT ![id] = @ + 1]

\* A task of the tools node finishes with outcome o.
Finished(cs, i, o) == [cs EXCEPT ![i].st = "done", ![i].out = o]

\* Task i finishes while a task requested before it has not.
Overtakes(cs, i) == \E j \in 1..(i - 1) : cs[j].st # "done"

\* Which task of the tools node may start: tasks are created in request
\* order and start in that order, each as soon as it is scheduled.
Startable(cs) ==
    {i \in 1..Len(cs) : /\ cs[i].st = "todo"
                        /\ \A j \in 1..(i - 1) : cs[j].st # "todo"}

\* Variant: the wrapper is a closure over the loop variable (late binding):
\* every wrapper asks for the tool enumerated last.
create_tool_wrapper_late(tools, k) == tools[Len(tools)]

\* create_tool_wrapper(tool.name): the name the wrapper of the k-th wrapped
\* tool asks for is the one it was created with.
create_tool_wrapper(tools, k) == tools[k]

\* session.call_tool(tool_name, arguments=kwargs): the request on the wire.
CallTool(tool_name, kwargs) == [name |-> tool_name, args |-> kwargs]

\* The wrapped tool the tools node finds under a name.
ToolIndex(tools, name) == CHOOSE k \in 1..Len(tools) : tools[k] = name

\* A task of the tools node starts.  A request for a name that is not a
\* wrapped tool, or with arguments the args_schema of the tool rejects, is
\* answered at once with an error message, without a round trip; otherwise
\* the wrapper sends the request and awaits.
ToolStart ==
    /\ pc = "yielded"
    /\ node = "tools"
    /\ \E i \in Startable(calls) :
          IF /\ calls[i].name \in Range(langchain_tools)
             /\ Validates(jsonschema_to_pydantic(inputSchema(calls[i].name)),
                          calls[i].args)
          THEN /\ sent' = Wrapper(calls[i].id)
               /\ UNCHANGED overtaken
               /\ AfterCall([calls EXCEPT
                      ![i].st = "inflight",
                      ![i].request =
                          CallTool(create_tool_wrapper(langchain_tools,
                                       ToolIndex(langchain_tools, calls[i].name)),
                                   ParseInput(jsonschema_to_pydantic(
                                                  inputSchema(calls[i].name)),
                                              calls[i].args))])
          ELSE /\ UNCHANGED sent
               /\ overtaken' = (overtaken \/ Overtakes(calls, i))
               /\ AfterCall(Finished(calls, i, "invalid"))
    /\ UNCHANGED <<nextId, nModel, queries, final_out>>
    /\ UNCHANGED <<sessionVars, funcVars>>

\* The response of a round trip arrives, or the round trip fails: call_tool
\* returns a result (ok, or flagged isError by the server) or raises.
RoundTripOutcomes == {"ok", "isError", "raised"}

\* The round trip of a task in flight ends with one of the outcomes outs.
RoundTrip(outs) ==
    /\ pc = "yielded"
    /\ node = "tools"
    /\ \E i \in InFlight(calls) : \E o \in outs :
          /\ overtaken' = (overtaken \/ Overtakes(calls, i))
          /\ AfterCall(Finished(calls, i, o))
    /\ UNCHANGED <<sent, nextId, nModel, queries, final_out>>
    /\ UNCHANGED <<sessionVars, funcVars>>

RoundTripReturn == RoundTrip(RoundTripOutcomes)

\* ------------------------------------------------------ specification

InitSession ==
    /\ pc = "start"
    /\ mode \in Modes
    /\ procRunning = FALSE
    /\ channelOpen = FALSE
    /\ discovered = <<>>
    /\ nextTool = 1
    /\ langchain_tools = <<>>
    /\ setupError = "none"
    /\ agentYielded = FALSE
    /\ exitPath = "none"

InitLoop ==
    /\ node = "idle"
    /\ messages = <<>>
    /\ calls = <<>>
    /\ overtaken = FALSE
    /\ sent = [c \in 1..IdSpace |-> 0]
    /\ nextId = 1
    /\ nModel = 0
    /\ queries = 0
    /\ final_out = NoContent

NotCalled == [kind |-> "none", via |-> "none", value |-> <<>>]

\* A descriptor without parameters, and no translation made yet.
EmptySchema == [properties |-> <<>>, required |-> {}]

NotTranslated == [kind |-> "none", fields |-> <<>>]

\* The answers file: absent, not parsable as JSON, or a list of entries.
NoFile == [state |-> "absent", entries |-> <<>>]

\* run_evaluation has not been started.
NoHarness ==
    [pc |-> "idle", start_id |-> 1, cases |-> <<>>, previous |-> NoFile,
     file |-> NoFile, logs |-> <<>>, next |-> 1, results |-> <<>>]

\* Names in the namespace of a script: two of the pre-bound aliases (of the
\* same function), print, and a name x of the script's own.
SandboxNames == {"get_part_id", "find_part_id", "print", "x"}

\* What the expressions of the dict literal evaluate to in the server
\* process: get_part_id is a global of the module mcp_server.py (from tools
\* import get_part_id, run as __main__), print is found in builtins.
HostNames == {"get_part_id", "print"}

\* The server process as it is after the imports of mcp_server.py.
HostAtImport ==
    [n \in HostNames |->
        IF n = "get_part_id" THEN "tools.get_part_id" ELSE "builtins.print"]

\* sandbox_globals = {...}: the dict literal of execute_python_code, its
\* values read from the server process (host) when the call is made.
DictLiteral(host) ==
    [n \in SandboxNames |->
        CASE n = "get_part_id" -> host["get_part_id"]
          [] n = "find_part_id" -> host["get_part_id"]
          [] n = "print" -> host["print"]
          [] n = "x" -> "unbound"]

\* The pre-bound names: the dict literal in a server no script has touched.
Prebound == DictLiteral(HostAtImport)

\* No script has run: runs counts the calls, start and left are the
\* namespace the latest script started with and the one it left behind,
\* host the globals and builtins of the server process.
NoRuns ==
    [runs |-> 0, start |-> Prebound, left |-> Prebound, host |-> HostAtImport]

Init ==
    /\ InitSession
    /\ InitLoop
    /\ code = <<>>
    /\ outcome = NotCalled
    /\ hostStdout = <<>>
    /\ schema = EmptySchema
    /\ args_schema = NotTranslated
    /\ sandbox = NoRuns
    /\ harness = NoHarness

Next ==
    \/ CheckServerScript
    \/ SpawnServer
    \/ StdioClientEnter
    \/ SessionInitialize
    \/ ListTools
    \/ BuildTool
    \/ YieldAgent
    \/ Cancel
    \/ LeaveContext
    \/ StartQuery
    \/ AgentNode
    \/ AgentRaises
    \/ ToolStart
    \/ RoundTripReturn

Spec == Init /\ [][Next]_vars

\* ---------------------------------------------- long conversations

\* The same program with a model that asks for at most one call of
\* check_stock per turn, as often as it likes, and a server that answers
\* every request: conversations as long as the recursion limit allows,
\* started by either caller (run_evaluation or run_interactive).
LongAgentNode ==
    AgentStep({0, 1}, {r \in CompleteRequests : r.name = "check_stock"})

LongRoundTripReturn == RoundTrip({"ok"})

NextLong ==
    \/ CheckServerScript
    \/ SpawnServer
    \/ StdioClientEnter
    \/ SessionInitialize
    \/ ListTools
    \/ BuildTool
    \/ YieldAgent
    \/ Cancel
    \/ LeaveContext
    \/ StartQuery
    \/ StartInteractiveQuery
    \/ LongAgentNode
    \/ AgentRaises
    \/ ToolStart
    \/ LongRoundTripReturn

SpecLong == Init /\ [][NextLong]_vars

\* ------------------------------------------- requests with any arguments

\* What a request may give as arguments: none, the parameter of one tool,
\* of the other, or both.
AnyRequests == [name : ToolNames, args : SUBSET {"part_id", "code"}]

\* The same program with a model that asks for one tool call per turn, for
\* any tool and with any of these arguments, and a server that answers every
\* request.
ArgsAgentNode ==
    AgentStep(IF nextId <= MaxCalls THEN {0, 1} ELSE {0}, AnyRequests)

NextArgs ==
    \/ CheckServerScript
    \/ SpawnServer
    \/ StdioClientEnter
    \/ SessionInitialize
    \/ ListTools
    \/ BuildTool
    \/ YieldAgent
    \/ Cancel
    \/ LeaveContext
    \/ StartQuery
    \/ ArgsAgentNode
    \/ AgentRaises
    \/ ToolStart
    \/ LongRoundTripReturn

SpecArgs == Init /\ [][NextArgs]_vars

\* ----------------------------------------------------- script executor

\* Text is a sequence of pieces; "\n" and " " are the whitespace pieces.
Whitespace == {"\n", " "}

\* return "Code executed successfully but printed no output. ..."
HintText ==
    <<"Code executed successfully but printed no output. Did you forget print()?">>

\* return f"RUNTIME ERROR:\n{traceback.format_exc()}"; the trace names the
\* exception.
RuntimeErrorText(e) == <<"RUNTIME ERROR:\n", e>>

\* Statements of a script:
\*   assign       x = 1                       no output
\*   print_x      print("x")                  writes "x" and a newline
\*   print_blank  print()                     writes a newline
\*   write_hint   print(<the hint text>, end="")
\*   raise_error  raise ValueError("boom")
\*   sys_exit     sys.exit(1), i.e. raise SystemExit
\*   bad_syntax   a line that does not compile
Statements == {"assign", "print_x", "print_blank", "write_hint",
               "raise_error", "sys_exit", "bad_syntax"}

Scripts == SeqsUpTo(Statements, MaxScriptLen)

OutputProducing == {"print_x", "print_blank", "write_hint"}

Written(stmt) ==
    CASE stmt = "print_x" -> <<"x", "\n">>
      [] stmt = "print_blank" -> <<"\n">>
      [] stmt = "write_hint" -> HintText
      [] OTHER -> <<>>

Raises(stmt) ==
    CASE stmt = "raise_error" -> "ValueError"
      [] stmt = "sys_exit" -> "SystemExit"
      [] OTHER -> "none"

\* Variant: the script runs without the redirection.
SysStdoutNotRedirected == "host"

\* Where sys.stdout points while the script runs: inside
\* `with contextlib.redirect_stdout(output_capture)` it is the capture buffer.
SysStdout == "capture"

\* exec(code, sandbox_globals) under redirect_stdout(output_capture): the
\* script is compiled as a whole, then its statements run in order, each
\* write going to sys.stdout, until one raises.
RECURSIVE RunFrom(_, _, _)
RunFrom(c, i, cap) ==
    IF i > Len(c) THEN [captured |-> cap, exc |-> "none"]
    ELSE IF Raises(c[i]) # "none" THEN [captured |-> cap, exc |-> Raises(c[i])]
    ELSE RunFrom(c, i + 1, cap \o Written(c[i]))

\* What the run left in the capture buffer and on the real standard output,
\* and the exception that ended it.
Exec(c) ==
    IF "bad_syntax" \in Range(c)
    THEN [captured |-> <<>>, host |-> <<>>, exc |-> "SyntaxError"]
    ELSE LET r == RunFrom(c, 1, <<>>)
         IN  [captured |-> IF SysStdout = "capture" THEN r.captured ELSE <<>>,
              host |-> IF SysStdout = "capture" THEN <<>> ELSE r.captured,
              exc |-> r.exc]

\* except Exception: SystemExit derives from BaseException, not Exception.
CaughtByExceptException(e) == e \in {"ValueError", "SyntaxError"}

\* str.strip(): leading and trailing whitespace removed.
RECURSIVE LStrip(_)
LStrip(t) == IF t # <<>> /\ Head(t) \in Whitespace THEN LStrip(Tail(t)) ELSE t

RECURSIVE RStrip(_)
RStrip(t) ==
    IF t # <<>> /\ t[Len(t)] \in Whitespace
    THEN RStrip(SubSeq(t, 1, Len(t) - 1)) ELSE t

Strip(t) == RStrip(LStrip(t))

\* Variant: the check for empty output is missing.
NoOutputNeverTaken(result) == FALSE

\* if not result.strip():
NoOutput(result) == Strip(result) = <<>>

\* execute_python_code(code): what the call returns (and by which return
\* statement), or the exception that leaves it.
Execute(c) ==
    LET r == Exec(c) IN
    IF r.exc = "none"
    THEN IF NoOutput(r.captured)
         THEN [kind |-> "returned", via |-> "hint", value |-> HintText]
         ELSE [kind |-> "returned", via |-> "captured", value |-> r.captured]
    ELSE IF CaughtByExceptException(r.exc)
    THEN [kind |-> "returned", via |-> "runtime_error",
          value |-> RuntimeErrorText(r.exc)]
    ELSE [kind |-> "raised", via |-> "none", value |-> <<r.exc>>]

\* One call of the tool with the script it was sent.  redirect_stdout puts
\* sys.stdout back when the with block is left, also by an exception.
execute_python_code ==
    /\ outcome = NotCalled
    /\ outcome' = Execute(code)
    /\ hostStdout' = hostStdout \o Exec(code).host
    /\ UNCHANGED code
    /\ UNCHANGED <<sessionVars, loopVars, schemaVars, sandbox, harness>>

\* The server in code mode, with a call of execute_python_code for any script.
InitExec ==
    /\ InitSession
    /\ mode = "code"
    /\ InitLoop
    /\ code \in Scripts
    /\ outcome = NotCalled
    /\ hostStdout = <<>>
    /\ schema = EmptySchema
    /\ args_schema = NotTranslated
    /\ sandbox = NoRuns
    /\ harness = NoHarness

NextExec == execute_python_code

SpecExec == InitExec /\ [][NextExec]_vars

\* ------------------------------------------------- script namespaces

\* The statements of a script that bind a name to a value of the script's
\* own: in its namespace (x = ..., print = ..., get_part_id = ...), or in
\* the server process (import __main__; __main__.get_part_id = ... and
\* import builtins; builtins.print = ...; exec puts __builtins__ into the
\* dict, so a script can import).
BindStatements ==
    {<<"own", n>> : n \in SandboxNames} \cup {<<"host", n>> : n \in HostNames}

\* A script as the bindings it makes, in order.
Rebindings == SeqsUpTo(BindStatements, MaxScriptLen)

\* The namespace after the script has run in namespace ns: only the
\* statements that bind in the namespace change it (the dict holds its own
\* references to the pre-bound objects).
RECURSIVE RunIn(_, _)
RunIn(ns, c) ==
    IF c = <<>> THEN ns
    ELSE IF Head(c)[1] = "own"
    THEN RunIn([ns EXCEPT ![Head(c)[2]] = "script"], Tail(c))
    ELSE RunIn(ns, Tail(c))

\* The server process after the script has run: the statements that bind
\* in __main__ or in builtins change it.
RECURSIVE RunOnHost(_, _)
RunOnHost(host, c) ==
    IF c = <<>> THEN host
    ELSE IF Head(c)[1] = "host"
    THEN RunOnHost([host EXCEPT ![Head(c)[2]] = "script"], Tail(c))
    ELSE RunOnHost(host, Tail(c))

\* The namespace a call hands to exec: execute_python_code builds the dict
\* anew in every call, from the globals and builtins as they are then.
SandboxGlobals(s) == DictLiteral(s.host)

\* A call of execute_python_code in a server that has answered others:
\* exec(code, sandbox_globals).
RunScript ==
    /\ sandbox.runs < MaxRuns
    /\ \E c \in Rebindings :
          sandbox' = [runs |-> sandbox.runs + 1,
                      start |-> SandboxGlobals(sandbox),
                      left |-> RunIn(SandboxGlobals(sandbox), c),
                      host |-> RunOnHost(sandbox.host, c)]
    /\ UNCHANGED <<sessionVars, loopVars, execVars, schemaVars, harness>>

\* The server in code mode answering calls of execute_python_code.
InitSandbox ==
    /\ InitSession
    /\ mode = "code"
    /\ InitLoop
    /\ code = <<>>
    /\ outcome = NotCalled
    /\ hostStdout = <<>>
    /\ schema = EmptySchema
    /\ args_schema = NotTranslated
    /\ sandbox = NoRuns
    /\ harness = NoHarness

NextSandbox == RunScript

SpecSandbox == InitSandbox /\ [][NextSandbox]_vars

\* ------------------------------------------------- resumable harness

\* Identifiers of test cases.
CaseIds == {1, 2, 3}

\* The validation logic: status = "FAIL"; "PASS" if the expected text is in
\* the answer; else "PASS (Refusal)" if the expected text holds "refusal" and
\* the answer one of the words cannot, sorry, scope, unable.
Grade(exp_in_out, refusal_in_exp, refusal_word_in_out) ==
    IF exp_in_out THEN "PASS"
    ELSE IF refusal_in_exp /\ refusal_word_in_out THEN "PASS (Refusal)"
    ELSE "FAIL"

\* What agent.ainvoke and the grading make of a case: a graded answer, or an
\* exception (of ainvoke or of the code after it).
CaseResults ==
    {"raised"} \cup {Grade(a, b, c) : a \in BOOLEAN, b \in BOOLEAN, c \in BOOLEAN}

\* Start ids given on the command line: an id of a case, or one beyond all.
StartIds == CaseIds \cup {4}

\* test_set.json: the ids of its cases, in order; load_test_cases takes the
\* list as it is, an id may occur more than once.
TestSets == SeqsUpTo(CaseIds, MaxCases)

\* An answers file json.load cannot parse: open(ANSWERS_FILE, 'w') has
\* truncated it and json.dump has not written all of it, or it never held
\* JSON.
Unparsable == [state |-> "unparsable", entries |-> <<>>]

\* The answers file an earlier run left.
AnswerFiles ==
    {NoFile, Unparsable} \cup
    {[state |-> "json", entries |-> es] :
        es \in SeqsUpTo([id : CaseIds, status : {"OLD"}], MaxLogged)}

\* Variant: the entry of the start id itself is kept as well.
KeptLogsUpToStart(logs, start_id) ==
    SelectSeq(logs, LAMBDA l : l.id <= start_id)

\* logs = [l for l in logs if l['id'] < start_id]
KeptLogs(logs, start_id) == SelectSeq(logs, LAMBDA l : l.id < start_id)

\* cases_to_run = [c for c in cases if c['id'] >= start_id]
CasesToRun(cases, start_id) == SelectSeq(cases, LAMBDA c : c >= start_id)

\* The status of the entry log_debug is called with.
EntryStatus(result) == IF result = "raised" THEN "CRASH" ELSE result

\* Sections 2 and 3 of run_evaluation: load the answers file if it exists
\* (an unparsable one counts as empty), drop the entries from start_id on,
\* select the cases from start_id on, and return if there are none.
LoadAndFilter ==
    /\ harness.pc = "start"
    /\ LET loaded == IF harness.file.state = "json"
                     THEN KeptLogs(harness.file.entries, harness.start_id)
                     ELSE <<>>
       IN  harness' = [harness EXCEPT
               !.logs = loaded,
               !.pc = IF CasesToRun(harness.cases, harness.start_id) = <<>>
                      THEN "done" ELSE "enter"]
    /\ UNCHANGED <<sessionVars, loopVars, execVars, schemaVars, sandbox>>

\* async with mcp_server_context(mode="code") as agent: the setup yields the
\* agent or raises, and then run_evaluation is left with that exception.
EnterContext ==
    /\ harness.pc = "enter"
    /\ \/ harness' = [harness EXCEPT !.pc = "cases"]
       \/ harness' = [harness EXCEPT !.pc = "failed"]
    /\ UNCHANGED <<sessionVars, loopVars, execVars, schemaVars, sandbox>>

\* One iteration of `for case in cases_to_run`: ainvoke and the grading, or
\* the except branch; either way log_debug appends one entry to logs and
\* writes logs to the answers file.  After the last case the loop ends and
\* the context is about to be left.
RunCase ==
    /\ harness.pc = "cases"
    /\ \E result \in CaseResults :
          LET run == CasesToRun(harness.cases, harness.start_id)
              entry == [id |-> run[harness.next],
                        status |-> EntryStatus(result)]
              logs == Append(harness.logs, entry)
          IN  harness' = [harness EXCEPT
                  !.logs = logs,
                  !.file = [state |-> "json", entries |-> logs],
                  !.results = Append(@, result),
                  !.next = @ + 1,
                  !.pc = IF harness.next = Len(run) THEN "leaving" ELSE "cases"]
    /\ UNCHANGED <<sessionVars, loopVars, execVars, schemaVars, sandbox>>

\* After the loop: the context is left, the score is counted and printed
\* (lines 150-153), run_evaluation returns.
FinishEvaluation ==
    /\ harness.pc = "leaving"
    /\ harness' = [harness EXCEPT !.pc = "done"]
    /\ UNCHANGED <<sessionVars, loopVars, execVars, schemaVars, sandbox>>

\* The run is interrupted (KeyboardInterrupt or a cancellation, neither an
\* Exception, so the except branch does not log it) and ends there:
\*  - while the context is entered, while a case is running or between two
\*    cases, or after the last case was logged while the context is left:
\*    nothing more is logged and the answers file stays as it is;
\*  - inside log_debug for the case that was running, after logs.append:
\*    before open(ANSWERS_FILE, 'w') the file stays as it is, after it the
\*    file is truncated and, json.dump not finished, cannot be parsed; the
\*    entries of the earlier run that were kept are not in it any more.
Interrupt ==
    /\ \/ /\ harness.pc \in {"enter", "cases", "leaving"}
          /\ harness' = [harness EXCEPT !.pc = "interrupted"]
       \/ /\ harness.pc = "cases"
          /\ \E result \in CaseResults : \E f \in {harness.file, Unparsable} :
                LET run == CasesToRun(harness.cases, harness.start_id)
                    entry == [id |-> run[harness.next],
                              status |-> EntryStatus(result)]
                IN  harness' = [harness EXCEPT
                        !.logs = Append(@, entry),
                        !.file = f,
                        !.results = Append(@, result),
                        !.pc = "interrupted"]
    /\ UNCHANGED <<sessionVars, loopVars, execVars, schemaVars, sandbox>>

\* python evaluate_code.py start_id, for any test set and any answers file.
InitHarness ==
    /\ InitSession
    /\ mode = "code"
    /\ InitLoop
    /\ code = <<>>
    /\ outcome = NotCalled
    /\ hostStdout = <<>>
    /\ schema = EmptySchema
    /\ args_schema = NotTranslated
    /\ sandbox = NoRuns
    /\ \E s \in StartIds : \E cs \in TestSets : \E f \in AnswerFiles :
          harness = [pc |-> "start", start_id |-> s, cases |-> cs,
                     previous |-> f, file |-> f, logs |-> <<>>, next |-> 1,
                     results |-> <<>>]

NextHarness ==
    \/ LoadAndFilter
    \/ EnterContext
    \/ RunCase
    \/ FinishEvaluation
    \/ Interrupt

SpecHarness == InitHarness /\ [][NextHarness]_vars

\* ------------------------------------------- translation of a descriptor

\* args_schema = jsonschema_to_pydantic(tool.name + "Schema", tool.inputSchema)
TranslateSchema ==
    /\ args_schema = NotTranslated
    /\ args_schema' = jsonschema_to_pydantic(schema)
    /\ UNCHANGED schema
    /\ UNCHANGED <<sessionVars, loopVars, execVars, sandbox, harness>>

\* The translation of any descriptor schema.
InitTranslate ==
    /\ InitSession
    /\ InitLoop
    /\ code = <<>>
    /\ outcome = NotCalled
    /\ hostStdout = <<>>
    /\ schema \in Schemas
    /\ args_schema = NotTranslated
    /\ sandbox = NoRuns
    /\ harness = NoHarness

NextTranslate == TranslateSchema

SpecTranslate == InitTranslate /\ [][NextTranslate]_vars

\* ------------------------------------------------------------- claims

\* Positions of the result turns of call identifier id in conversation ms.
ResultTurns(ms, id) ==
    {k \in 1..Len(ms) : ms[k].type = "tool" /\ ms[k].tool_call_id = id}

\* Position of the latest model response in ms (0 if there is none).
LastAI(ms) ==
    LET ais == {k \in 1..Len(ms) : ms[k].type = "ai"}
    IN  IF ais = {} THEN 0 ELSE CHOOSE k \in ais : \A j \in ais : j <= k

FailedOutcomes == {"raised", "isError"}

\* C2: when the invocation of a call of a turn with several requests fails,
\* by a transport error or by an error of the tool, the call still gets a
\* result turn marked as failed, the other calls of the turn are not
\* abandoned (each gets its own result turn), and the tools node hands over to
\* the agent node: the loop neither ends nor aborts.
C2_FailedCallKeepsSiblings ==
    /\ [](/\ pc = "yielded"
          /\ Len(calls) >= 2
          /\ \E i \in 1..Len(calls) : calls[i].out \in FailedOutcomes
          =>
            \/ node = "tools" /\ ~AllDone(calls)
            \/ /\ node \in {"agent", "crashed"}
               /\ AllDone(calls)
               /\ \A i \in 1..Len(calls) :
                    \E k \in ResultTurns(messages, calls[i].id) :
                       /\ ResultTurns(messages, calls[i].id) = {k}
                       /\ k > LastAI(messages)
                       /\ messages[k].content[1] = calls[i].out
                       /\ calls[i].out \in FailedOutcomes =>
                              messages[k].status = "error")
    /\ [][node = "tools" /\ node' # "tools" /\ pc' = "yielded"
            => node' = "agent"]_vars

\* C3: whenever the loop is about to ask the model, every invocation request
\* of the latest model response has exactly one result turn.
C3_ResultsBeforeNextModelTurn ==
    pc = "yielded" /\ node = "agent" /\ LastAI(messages) > 0 =>
        LET tcs == messages[LastAI(messages)].tool_calls
        IN  \A i \in 1..Len(tcs) :
               Cardinality(ResultTurns(messages, tcs[i].id)) = 1

C3_Witness ==
    /\ pc = "yielded"
    /\ node = "agent"
    /\ LastAI(messages) > 0
    /\ Len(messages[LastAI(messages)].tool_calls) >= 2
    /\ Last(messages).type = "tool"

\* C4: every result turn comes after a model response that requested its call
\* identifier, and no two result turns have the same call identifier.
C4_ResultsPairedWithRequests ==
    \A k \in 1..Len(messages) :
        messages[k].type = "tool" =>
            /\ \E j \in 1..(k - 1) :
                  /\ messages[j].type = "ai"
                  /\ \E i \in 1..Len(messages[j].tool_calls) :
                        messages[j].tool_calls[i].id = messages[k].tool_call_id
            /\ ResultTurns(messages, messages[k].tool_call_id) = {k}

C4_Witness ==
    /\ Cardinality({k \in 1..Len(messages) : messages[k].type = "tool"}) >= 3
    /\ Cardinality({k \in 1..Len(messages) : messages[k].type = "ai"}) >= 2

\* C5: once the session context has been left, by whatever path, the server
\* subprocess is not running and the channel is closed.
C5_NoExitLeavesSubprocess ==
    pc = "exited" => ~procRunning /\ ~channelOpen

C5_Witness ==
    /\ pc = "exited"
    /\ exitPath = "cancel"
    /\ node = "tools"
    /\ InFlight(calls) # {}

\* The discovered descriptors the mode keeps.
Kept(m, ds) == SelectSeq(ds, LAMBDA name : ~Skipped(m, name))

\* C6 as stated: a failing setup step fails the session and no agent is ever
\* yielded; the loop runs only with the tools built from all the discovered
\* descriptors.
C6_Original ==
    /\ setupError # "none" => pc = "exited" /\ exitPath = "error" /\ ~agentYielded
    /\ node # "idle" => agentYielded
    /\ agentYielded => langchain_tools = discovered

\* C6, amended: a failing setup step fails the session and no agent is ever
\* yielded; the loop runs only with the tools built from all the discovered
\* descriptors that the mode keeps (standard mode skips execute_python_code),
\* never with a part of them.
C6_SetupFailureYieldsNoAgent ==
    /\ setupError # "none" => pc = "exited" /\ exitPath = "error" /\ ~agentYielded
    /\ node # "idle" => agentYielded
    /\ agentYielded => langchain_tools = Kept(mode, discovered)

C6_Witness ==
    /\ setupError = "translate"
    /\ pc = "exited"
    /\ Len(discovered) = 2
    /\ Len(langchain_tools) = 1

\* C7: execute_python_code returns an outcome for every script and never
\* raises.
C7_ExecuteNeverRaises == outcome.kind # "raised"

\* C8 as stated: a script that completes without an output-producing statement
\* gets the hint; the hint differs from every runtime-error outcome and from
\* every captured output that is returned; captured output is returned only
\* when it is not empty.
C8_Original ==
    outcome # NotCalled =>
        /\ (Exec(code).exc = "none" /\ Range(code) \cap OutputProducing = {})
              => outcome.via = "hint" /\ outcome.value = HintText
        /\ outcome.via = "runtime_error" => outcome.value # HintText
        /\ outcome.via = "captured" => outcome.value # HintText
        /\ outcome.via = "captured" => outcome.value # <<>>

\* C8, amended: a script that completes without an output-producing statement
\* gets the hint; the hint differs from every runtime-error outcome, and from
\* every captured output that is returned except that of a script which itself
\* writes the hint text; captured output is returned only when it is not empty.
C8_EmptyOutputHint ==
    outcome # NotCalled =>
        /\ (Exec(code).exc = "none" /\ Range(code) \cap OutputProducing = {})
              => outcome.via = "hint" /\ outcome.value = HintText
        /\ outcome.via = "runtime_error" => outcome.value # HintText
        /\ (outcome.via = "captured" /\ "write_hint" \notin Range(code))
              => outcome.value # HintText
        /\ outcome.via = "captured" => outcome.value # <<>>

C8_Witness ==
    /\ code = <<"assign", "assign">>
    /\ outcome.kind = "returned"
    /\ outcome.via = "hint"
    /\ outcome.value = HintText

\* C9 as stated: the calls of a turn make their round trips one after the
\* other, so at most one request is in flight at any moment.
C9_Original ==
    pc = "yielded" =>
        /\ Cardinality(InFlight(calls)) <= 1
        /\ \A i \in 1..Len(calls) :
              calls[i].st # "todo" => \A j \in 1..(i - 1) : calls[j].st = "done"

\* C9, amended: the calls of a turn are started in request order but run
\* concurrently: a round trip may start before the previous one has completed,
\* so as many requests as the turn has may be in flight at once, at most one
\* per request; none is in flight when the model is asked.
C9_ConcurrentWithinTurn ==
    pc = "yielded" =>
        /\ node # "tools" => InFlight(calls) = {}
        /\ \A i \in 1..Len(calls) :
              /\ calls[i].st = "inflight" => sent[calls[i].id] = 1
              /\ calls[i].st # "todo" => \A j \in 1..(i - 1) : calls[j].st # "todo"

C9_Witness ==
    /\ pc = "yielded"
    /\ node = "tools"
    /\ Cardinality(InFlight(calls)) >= 2

\* C10 as stated: every invocation request makes exactly one round trip.
C10_Original ==
    /\ \A id \in DOMAIN sent : sent[id] <= 1
    /\ (pc = "yielded" /\ AllDone(calls)) =>
          \A i \in 1..Len(calls) : sent[calls[i].id] = 1

\* C10, amended: every invocation request that reaches its wrapper makes
\* exactly one round trip, also when that round trip fails; a request that is
\* rejected before the wrapper is called (a name that is not a wrapped tool)
\* makes none; no request makes more than one.
C10_OneRoundTripPerCall ==
    /\ \A id \in DOMAIN sent : sent[id] <= 1
    /\ (pc = "yielded" /\ AllDone(calls)) =>
          \A i \in 1..Len(calls) :
             sent[calls[i].id] = IF calls[i].out = "invalid" THEN 0 ELSE 1

C10_Witness ==
    /\ pc = "yielded"
    /\ node = "agent"
    /\ \E i \in 1..Len(calls) : calls[i].out = "raised" /\ sent[calls[i].id] = 1
    /\ \E i \in 1..Len(calls) : calls[i].out = "invalid" /\ sent[calls[i].id] = 0

\* C11: the result turns of a model response with requests r1..rn stand right
\* behind that response in the order r1..rn, in whatever order the round trips
\* of the turn finished.
C11_ResultsInRequestOrder ==
    \A a \in 1..Len(messages) :
        messages[a].type = "ai" /\ a < Len(messages) =>
            LET tcs == messages[a].tool_calls
            IN  /\ a + Len(tcs) <= Len(messages)
                /\ \A i \in 1..Len(tcs) :
                      /\ messages[a + i].type = "tool"
                      /\ messages[a + i].tool_call_id = tcs[i].id

C11_Witness ==
    /\ pc = "yielded"
    /\ node = "agent"
    /\ overtaken
    /\ Len(calls) >= 2
    /\ \A i \in 1..Len(calls) : calls[i].out \in RoundTripOutcomes
    /\ Last(messages).type = "tool"
    /\ Last(messages).tool_call_id = calls[Len(calls)].id

\* C12: no round trip for a call identifier starts while the conversation does
\* not hold the model response that requested it: a call that was started,
\* and a request that was sent, has its request in the conversation.
C12_RequestAppendedBeforeDispatch ==
    /\ \A id \in DOMAIN sent :
          sent[id] > 0 =>
              \E a \in 1..Len(messages) :
                 /\ messages[a].type = "ai"
                 /\ \E i \in 1..Len(messages[a].tool_calls) :
                       messages[a].tool_calls[i].id = id
    /\ \A i \in 1..Len(calls) :
          calls[i].st # "todo" =>
              /\ LastAI(messages) > 0
              /\ Len(messages[LastAI(messages)].tool_calls) >= i
              /\ messages[LastAI(messages)].tool_calls[i].id = calls[i].id

C12_Witness ==
    /\ node = "tools"
    /\ Len(calls) >= 2
    /\ calls[1].st = "inflight"
    /\ sent[calls[1].id] = 1
    /\ calls[2].st = "todo"
    /\ Last(messages).type = "ai"

\* Sequence s is a prefix of sequence t.
IsPrefix(s, t) == Len(s) <= Len(t) /\ \A k \in 1..Len(s) : s[k] = t[k]

\* C13: within a conversation every step of the loop leaves the conversation
\* it found as a prefix of the conversation it leaves: turns are added at the
\* end, none is removed, replaced or moved.
C13_ConversationAppendOnly ==
    [][queries' = queries => IsPrefix(messages, messages')]_vars

C13_Witness ==
    /\ queries = 1
    /\ nModel >= 2
    /\ Len(messages) >= 6
    /\ node = "end"

\* C14: when a round trip completes with a response that carries the error
\* flag, the result turn of that call is marked failed, and the loop goes on
\* to the next model turn.
C14_ErrorFlagMarksFailed ==
    /\ \A k \in 1..Len(messages) :
          messages[k].type = "tool" /\ messages[k].content[1] = "isError" =>
              messages[k].status = "error"
    /\ pc = "yielded" /\ node = "crashed" =>
          \A i \in 1..Len(calls) : calls[i].out # "isError"

\* C15: a failing invocation or a failing script never ends the loop: the
\* tools node hands over to the agent node and to nothing else, the context
\* is left from the tools node only by cancellation, and a run that ends gives
\* the caller the final answer and a conversation that holds a result turn
\* for every request, the failed ones included.
C15_FailuresStayInsideLoop ==
    /\ [][pc = "yielded" /\ node = "tools" /\ pc' = "yielded" =>
             node' \in {"tools", "agent"}]_vars
    /\ [][node = "tools" /\ pc # "exited" /\ pc' = "exited" =>
             exitPath' = "cancel"]_vars
    /\ [](pc = "yielded" /\ node = "end" =>
             /\ final_out = Last(messages).content
             /\ Last(messages).type = "ai"
             /\ \A id \in 1..(nextId - 1) :
                   Cardinality(ResultTurns(messages, id)) = 1)

C15_Witness ==
    /\ pc = "yielded"
    /\ node = "end"
    /\ \E k \in 1..Len(messages) :
          messages[k].type = "tool" /\ messages[k].content[1] = "raised"
    /\ \E k \in 1..Len(messages) :
          messages[k].type = "tool" /\ messages[k].content[1] = "isError"
    /\ \E k \in 1..Len(messages) :
          messages[k].type = "tool" /\ messages[k].content[1] = "invalid"

\* C16: every run of the loop ends: the supersteps of a run never exceed the
\* recursion limit, so a model that asks for invocations on every turn gets at
\* most (RecursionLimit + 1) \div 2 responses before the run is ended.
C16_LoopEnds ==
    /\ 2 * nModel - 1 <= RecursionLimit
    /\ pc = "yielded" /\ node = "tools" => Superstep(nModel, "tools") <= RecursionLimit
    /\ pc = "yielded" /\ node = "agent" =>
          Superstep(nModel + 1, "agent") <= RecursionLimit
    /\ Len(messages) <= RecursionLimit + 2

C16_Witness ==
    /\ pc = "yielded"
    /\ node = "crashed"
    /\ Superstep(nModel, "agent") = RecursionLimit
    /\ Last(messages).type = "ai"
    /\ Last(messages).tool_calls # <<>>
    /\ \A a \in 1..Len(messages) :
          messages[a].type = "ai" => messages[a].tool_calls # <<>>

\* C17 as stated: after any number of completed turns a model response with
\* invocation requests leads to the tools node, and the loop ends only by a
\* model response without requests.
C17_Original ==
    /\ [][pc = "yielded" /\ node = "agent" /\ nModel' = nModel + 1
             /\ Last(messages').tool_calls # <<>> => node' = "tools"]_vars
    /\ [](pc = "yielded" /\ node = "end" => Last(messages).tool_calls = <<>>)

\* C17, amended: the graph has no turn cap of its own but runs under the
\* recursion limit: a model response with requests leads to the tools node and
\* back to the agent node as long as the tools node's superstep is within the
\* limit, and ends the run with an error otherwise; END is entered only from
\* the agent node, by a model response without requests.
C17_NoCapBelowRecursionLimit ==
    /\ [][pc = "yielded" /\ node = "agent" /\ nModel' = nModel + 1
             /\ Last(messages').tool_calls # <<>> =>
                IF 2 * nModel' <= RecursionLimit
                THEN node' = "tools"
                ELSE node' = "crashed" \/ (pc' = "exited" /\ exitPath' = "error")]_vars
    /\ [][pc = "yielded" /\ node = "tools" /\ node' # "tools" /\ pc' = "yielded" =>
             node' = "agent"]_vars
    /\ [][node # "end" /\ node' = "end" =>
             /\ node = "agent"
             /\ Last(messages').type = "ai"
             /\ Last(messages').tool_calls = <<>>]_vars

C17_Witness ==
    /\ pc = "yielded"
    /\ node = "agent"
    /\ 2 * nModel + 1 = RecursionLimit
    /\ Last(messages).type = "tool"

\* C18: every query of a session starts from a conversation that holds only
\* its own initial turns (the system directive, when the caller gives one, and
\* the human turn of that query); the conversation the model is given never
\* holds a turn of an earlier query; and once the first query has started no
\* subprocess is started and the discovered tools do not change.
C18_FreshConversationPerQuery ==
    /\ [][queries' # queries =>
             /\ queries' = queries + 1
             /\ messages' \in {<<SystemMessage, HumanMessage(queries')>>,
                               <<HumanMessage(queries')>>}
             /\ UNCHANGED sessionVars]_vars
    /\ [](queries > 0 =>
             /\ \A k \in 1..Len(messages) :
                   /\ messages[k].type = "human" =>
                         messages[k] = HumanMessage(queries)
                   /\ messages[k].type \in {"system", "human"} => k <= 2
                   /\ messages[k].type = "tool" =>
                         ResultTurns(messages, messages[k].tool_call_id) = {k}
             /\ Cardinality({k \in 1..Len(messages) : messages[k].type = "ai"})
                   = nModel
             /\ Cardinality({k \in 1..Len(messages) : messages[k].type = "human"})
                   = 1)
    /\ [][queries > 0 =>
             /\ procRunning' => procRunning
             /\ discovered' = discovered
             /\ langchain_tools' = langchain_tools]_vars

C18_Witness ==
    /\ pc = "yielded"
    /\ queries = 2
    /\ node = "agent"
    /\ nModel >= 2
    /\ Last(messages).type = "tool"
    /\ procRunning

\* Position of the parameter called name in the list ps (0 if none).
FieldIndex(ps, name) ==
    IF \E i \in 1..Len(ps) : ps[i].name = name
    THEN CHOOSE i \in 1..Len(ps) : ps[i].name = name
    ELSE 0

\* C19: the translation of any descriptor completes without raising; a
\* parameter whose declared type is missing or is any value outside the six
\* known ones gets the text type, and a parameter with one of the six gets the
\* type mapped to it.
C19_UnknownTypeFallsBackToText ==
    args_schema # NotTranslated =>
        /\ args_schema.kind = "model"
        /\ \A i \in 1..Len(schema.properties) :
              LET k == FieldIndex(args_schema.fields, schema.properties[i].name)
                  t == schema.properties[i].type
              IN  /\ k > 0
                  /\ args_schema.fields[k].py_type =
                        IF t \in KnownTypes THEN type_map[t] ELSE "str"

\* C20: in the contract of a descriptor a parameter is required exactly when
\* its name is in the descriptor's required list, every other declared
\* parameter is optional with default None, the contract has the declared
\* parameters and no others, and none at all for an empty specification.
C20_RequiredIffListed ==
    args_schema.kind = "model" =>
        /\ Len(args_schema.fields) = Len(schema.properties)
        /\ \A i \in 1..Len(schema.properties) :
              LET f == args_schema.fields[i]
              IN  /\ f.name = schema.properties[i].name
                  /\ f.default = "..." <=> f.name \in schema.required
                  /\ f.name \notin schema.required => f.default = "None"
        /\ schema.properties = <<>> => args_schema.fields = <<>>

C20_Witness ==
    /\ args_schema.kind = "model"
    /\ Len(args_schema.fields) = 2
    /\ args_schema.fields[1].default = "..."
    /\ args_schema.fields[2].default = "None"
    /\ schema.required \ {schema.properties[i].name : i \in 1..Len(schema.properties)} # {}

\* C21: an invocation request for a wrapped tool that does not give a
\* parameter the tool's schema requires is rejected before any round trip: no
\* request is sent for it and its result turn is marked failed; a request that
\* gives every required parameter is dispatched, with one request sent.
C21_MissingRequiredRejected ==
    \A i \in 1..Len(calls) :
        calls[i].st # "todo" /\ calls[i].name \in Range(langchain_tools) =>
            IF inputSchema(calls[i].name).required \subseteq calls[i].args
            THEN /\ sent[calls[i].id] = 1
                 /\ calls[i].request # NoRequest
            ELSE /\ sent[calls[i].id] = 0
                 /\ calls[i].request = NoRequest
                 /\ calls[i].st = "done"
                 /\ \A k \in ResultTurns(messages, calls[i].id) :
                       messages[k].status = "error"

C21_Witness ==
    /\ pc = "yielded"
    /\ node = "agent"
    /\ Len(calls) = 1
    /\ calls[1].name \in Range(langchain_tools)
    /\ calls[1].args = {"code"}
    /\ calls[1].name = "check_stock"
    /\ sent[calls[1].id] = 0
    /\ Last(messages).type = "tool"
    /\ Last(messages).tool_call_id = calls[1].id
    /\ Last(messages).status = "error"

\* C24: the request a wrapper sends is for the tool it is registered under
\* and carries exactly the arguments the wrapper was called with: never the
\* name of another tool, in particular not of the tool enumerated last.
C24_WrapperBoundToOwnTool ==
    \A i \in 1..Len(calls) :
        /\ calls[i].request # NoRequest =>
              /\ calls[i].request.name = calls[i].name
              /\ calls[i].request.name \in Range(langchain_tools)
              /\ calls[i].request.args =
                    calls[i].args \cap
                       {inputSchema(calls[i].name).properties[k].name :
                           k \in 1..Len(inputSchema(calls[i].name).properties)}
        /\ sent[calls[i].id] > 0 <=> calls[i].request # NoRequest

C24_Witness ==
    /\ pc = "yielded"
    /\ node = "tools"
    /\ Len(langchain_tools) = 2
    /\ Len(calls) = 1
    /\ calls[1].st = "inflight"
    /\ calls[1].name = langchain_tools[1]
    /\ calls[1].request.name = langchain_tools[1]
    /\ calls[1].request.args = inputSchema(calls[1].name).required

\* The outputs the statements of script c emit, concatenated in order.
RECURSIVE Emitted(_)
Emitted(c) == IF c = <<>> THEN <<>> ELSE Written(Head(c)) \o Emitted(Tail(c))

\* C22 as stated: a script that completes without error and emits outputs
\* gets back exactly their concatenation in emission order, and nothing is
\* written to the host's standard output.
C22_Original ==
    (outcome # NotCalled /\ Exec(code).exc = "none"
        /\ Range(code) \cap OutputProducing # {}) =>
            /\ outcome.kind = "returned"
            /\ outcome.value = Emitted(code)
            /\ hostStdout = <<>>

\* C22, amended: a script that completes without error and whose outputs hold
\* more than whitespace gets back exactly their concatenation in emission
\* order; when the outputs are only whitespace the hint is returned instead;
\* in both cases nothing is written to the host's standard output.
C22_CapturedIsConcatenation ==
    (outcome # NotCalled /\ Exec(code).exc = "none"
        /\ Range(code) \cap OutputProducing # {}) =>
            /\ outcome.kind = "returned"
            /\ outcome.value = IF \A k \in 1..Len(Emitted(code)) :
                                     Emitted(code)[k] \in Whitespace
                               THEN HintText
                               ELSE Emitted(code)
            /\ hostStdout = <<>>

C22_Witness ==
    /\ code = <<"print_x", "assign", "print_blank">>
    /\ outcome.kind = "returned"
    /\ outcome.via = "captured"
    /\ outcome.value = <<"x", "\n", "\n">>
    /\ hostStdout = <<>>

\* C23 as stated: in every session, whatever the mode, the tools declared to
\* the model hold every tool discovery returned, the script tool included.
C23_Original ==
    agentYielded => Range(discovered) \subseteq Range(langchain_tools)

\* C23, amended: the tools declared to the model hold every discovered tool
\* other than the script tool in both modes, and the script tool exactly when
\* discovery returned it and the session is in code mode.
C23_ScriptToolAdvertisedInCodeMode ==
    agentYielded =>
        /\ \A name \in Range(discovered) :
              name # "execute_python_code" => name \in Range(langchain_tools)
        /\ "execute_python_code" \in Range(langchain_tools) <=>
              (mode = "code" /\ "execute_python_code" \in Range(discovered))
        /\ Range(langchain_tools) \subseteq Range(discovered)

C23_Witness ==
    /\ pc = "yielded"
    /\ mode = "code"
    /\ node = "tools"
    /\ Range(discovered) = ToolNames
    /\ Range(langchain_tools) = ToolNames
    /\ \E i \in 1..Len(calls) :
          calls[i].name = "execute_python_code" /\ calls[i].st = "inflight"

\* C25: every script starts in a freshly built namespace with the same
\* pre-bound names bound to the same functions: nothing an earlier script
\* defined or rebound (a pre-bound function, print, a name of its own) is
\* visible to it.
C25_ScriptsShareNoNamespace ==
    sandbox.runs > 0 =>
        /\ sandbox.start = Prebound
        /\ \A n \in SandboxNames : sandbox.start[n] # "script"

\* C26: every execution returns exactly one of the three outcomes (captured
\* output, empty-output hint, runtime-error text), and a script that emits
\* output and then fails with an unhandled error gets the runtime-error text
\* alone, without the output captured before the failure.
C26_ErrorAfterOutputIsErrorOnly ==
    outcome # NotCalled =>
        /\ outcome.kind = "returned"
        /\ outcome.via \in {"captured", "hint", "runtime_error"}
        /\ (Exec(code).exc # "none" /\ Exec(code).captured # <<>>) =>
              /\ outcome.via = "runtime_error"
              /\ outcome.value = RuntimeErrorText(Exec(code).exc)

\* No id occurs twice in the list of entries or of case ids.
UniqueIds(ids) == \A i, j \in 1..Len(ids) : ids[i] = ids[j] => i = j

\* The entries the claim expects in the answers file after a run: those of
\* the earlier log below the start id, then one per case from the start id
\* on, in the order of the test set, CRASH where the case raised.
ExpectedLog(h) ==
    LET run == SelectSeq(h.cases, LAMBDA c : c >= h.start_id)
    IN  SelectSeq(h.previous.entries, LAMBDA l : l.id < h.start_id) \o
        [i \in 1..Len(run) |->
            [id |-> run[i],
             status |-> IF h.results[i] = "raised" THEN "CRASH"
                        ELSE h.results[i]]]

\* C27 as stated: after a run with start id s the answers file holds the
\* earlier entries with id < s followed by exactly one entry per test case
\* with id >= s, in test-set order, and no id twice when ids are unique in
\* the test set and in the earlier log.  (A missing answers file reads as an
\* empty log.)
C27_Original ==
    harness.pc = "done" =>
        /\ harness.file.entries = ExpectedLog(harness)
        /\ Len(harness.results) =
              Len(SelectSeq(harness.cases, LAMBDA c : c >= harness.start_id))

\* C27, amended: when the test set has a case with id >= s, the answers file
\* after the run holds the earlier entries with id < s followed by exactly one
\* entry per such case in test-set order (CRASH where the case raised, later
\* cases still run), and no id twice when ids are unique in the test set and
\* in the earlier log; when it has none, the run returns before it writes and
\* the answers file is left as it was.
C27_ResumedLog ==
    harness.pc = "done" =>
        IF \E i \in 1..Len(harness.cases) : harness.cases[i] >= harness.start_id
        THEN /\ harness.file.state = "json"
             /\ harness.file.entries = ExpectedLog(harness)
             /\ Len(harness.results) =
                   Len(SelectSeq(harness.cases,
                                 LAMBDA c : c >= harness.start_id))
             /\ (UniqueIds(harness.cases)
                    /\ UniqueIds([i \in 1..Len(harness.previous.entries) |->
                                     harness.previous.entries[i].id])) =>
                   UniqueIds([i \in 1..Len(harness.file.entries) |->
                                 harness.file.entries[i].id])
        ELSE /\ harness.file = harness.previous
             /\ harness.results = <<>>

C27_Witness ==
    /\ harness.pc = "done"
    /\ harness.start_id = 2
    /\ harness.cases = <<2, 3>>
    /\ harness.previous.entries =
          <<[id |-> 1, status |-> "OLD"], [id |-> 2, status |-> "OLD"]>>
    /\ harness.results = <<"raised", "PASS (Refusal)">>
    /\ harness.file.entries =
          <<[id |-> 1, status |-> "OLD"], [id |-> 2, status |-> "CRASH"],
            [id |-> 3, status |-> "PASS (Refusal)"]>>

=============================================================================
